---- MODULE Spec2Model ----
(***************************************************************************)
(* A model of 3D-RCAN's training entry point (src/train.py) and of the     *)
(* network assembler it calls (src/rcan/model.py).                         *)
(*                                                                         *)
(* Spec      : one run of train.py, phase by phase, over a bounded set of  *)
(*             configuration files and of TIFF files on disk.              *)
(* SpecBuild : one call of rcan.model.build_rcan with arguments drawn from *)
(*             a bounded set.                                              *)
(*                                                                         *)
(* Conventions.                                                            *)
(*  - A tensor shape is written without its batch axis, so a tensor of     *)
(*    Keras rank r has a shape of length r - 1 here.                       *)
(*  - A graph is the sequence of layers in creation order; a symbolic     *)
(*    tensor carries that sequence and the index of the layer that made   *)
(*    it.  Every layer records the line of src/rcan/model.py that created  *)
(*    it.                                                                  *)
(*  - Python's None is written None (the empty sequence): every list and   *)
(*    shape the program returns is non-empty, so the two never collide.    *)
(*  - Real numbers of the configuration are written in millionths.         *)
(*  - residual_scaling is written in tenths (10 is 1.0).                   *)
(***************************************************************************)
EXTENDS Integers, Sequences, FiniteSets, TLC

(* ------------------------------ bounds -------------------------------- *)

\* Most *.tif files a data directory holds.
MaxFiles == 1
\* build_rcan arguments explored by SpecBuild.
MaxChannels == 2
MaxBlocks == 2
MaxGroups == 2
MaxReduction == 3
MaxOutputChannels == 2

None == <<>>

Min(a, b) == IF a <= b THEN a ELSE b
Max(a, b) == IF a >= b THEN a ELSE b

(* ======================= src/rcan/model.py ============================ *)

Layer(op, line, shape, inputs, filters, kernel_size, activation) ==
    [op |-> op, line |-> line, shape |-> shape, inputs |-> inputs,
     filters |-> filters, kernel_size |-> kernel_size,
     activation |-> activation]

\* A symbolic tensor x carries the graph it belongs to: nodes are the layers
\* created so far and t is the layer that produced x.  err is the exception
\* that ended the construction ("none" while it goes on), err_line the line
\* that raised it.  zero_filters_ok is the installed framework's answer to
\* a convolution layer of 0 filters: the repository pins no framework
\* release, and releases differ (the layer is built, or its constructor
\* raises ValueError), so both answers are explored.
NoTensor(zero_filters_ok) ==
    [nodes |-> <<>>, t |-> 0, err |-> "none", err_line |-> 0,
     zero_filters_ok |-> zero_filters_ok]

ShapeAt(x, t) == x.nodes[t].shape

ShapeOf(x) == ShapeAt(x, x.t)

\* Calling a layer: the layer is appended and its output is the new tensor.
Emit(x, layer) ==
    IF x.err # "none" THEN x
    ELSE [x EXCEPT !.nodes = Append(@, layer), !.t = Len(x.nodes) + 1]

RaiseIn(x, e, line) ==
    IF x.err # "none" THEN x ELSE [x EXCEPT !.err = e, !.err_line = line]

_get_spatial_ndim(x) == (Len(ShapeOf(x)) + 1) - 2

_get_num_channels(x) == ShapeOf(x)[Len(ShapeOf(x))]

\* Length of one spatial axis after a stride-1 convolution.
ConvOutputLength(n, kernel_size, padding) ==
    IF padding = "same" THEN n ELSE n - kernel_size + 1

ConvShape(shape, num_filters, kernel_size, padding) ==
    [i \in 1..Len(shape) |->
        IF i = Len(shape) THEN num_filters
        ELSE ConvOutputLength(shape[i], kernel_size, padding)]

ConvLayer(x, num_filters, kernel_size, padding, activation, line) ==
    IF x.err # "none" THEN x
    ELSE IF _get_spatial_ndim(x) \notin {1, 2, 3}
         THEN RaiseIn(x, "NotImplementedError", 27)
    ELSE IF num_filters = 0 /\ ~x.zero_filters_ok
         THEN RaiseIn(x, "ValueError", line)
    ELSE Emit(x, Layer(CASE _get_spatial_ndim(x) = 1 -> "Conv1D"
                         [] _get_spatial_ndim(x) = 2 -> "Conv2D"
                         [] _get_spatial_ndim(x) = 3 -> "Conv3D",
                       line,
                       ConvShape(ShapeOf(x), num_filters, kernel_size, padding),
                       <<x.t>>, num_filters, kernel_size, activation))

\* A plausible slip: the convolution built with padding='valid'.
_conv_valid_padding(x, num_filters, kernel_size, activation, line) ==
    ConvLayer(x, num_filters, kernel_size, "valid", activation, line)

\* line is the line of the call, which tells the layers apart.
_conv(x, num_filters, kernel_size, activation, line) ==
    ConvLayer(x, num_filters, kernel_size, "same", activation, line)

_global_average_pooling(x) ==
    IF x.err # "none" THEN x
    ELSE IF _get_spatial_ndim(x) = 2
         THEN Emit(x, Layer("GlobalAveragePooling2D", 35,
                            <<_get_num_channels(x)>>, <<x.t>>, 0, 0, "none"))
    ELSE IF _get_spatial_ndim(x) = 3
         THEN Emit(x, Layer("GlobalAveragePooling3D", 37,
                            <<_get_num_channels(x)>>, <<x.t>>, 0, 0, "none"))
    ELSE RaiseIn(x, "NotImplementedError", 39)

\* A layer of one input that keeps or resets the shape (Standardise,
\* Destandardise, Lambda, Reshape).
UnaryLayer(x, op, line, shape) ==
    IF x.err # "none" THEN x
    ELSE Emit(x, Layer(op, line, shape, <<x.t>>, 0, 0, "none"))

\* Output shape of an element-wise layer (Multiply, Add) on two tensors of
\* the same rank: axes of extent 1 are broadcast.
ElemwiseCompatible(s, t) ==
    /\ Len(s) = Len(t)
    /\ \A i \in 1..Len(s) : s[i] = t[i] \/ s[i] = 1 \/ t[i] = 1

ElemwiseShape(s, t) == [i \in 1..Len(s) |-> IF s[i] = 1 THEN t[i] ELSE s[i]]

\* op()([a, b]) for two tensors a and b of the graph of x.
ElemwiseLayer(x, op, a, b, line) ==
    IF x.err # "none" THEN x
    ELSE IF ~ElemwiseCompatible(ShapeAt(x, a), ShapeAt(x, b))
         THEN RaiseIn(x, "ValueError", line)
    ELSE Emit(x, Layer(op, line, ElemwiseShape(ShapeAt(x, a), ShapeAt(x, b)),
                       <<a, b>>, 0, 0, "none"))

\* Multiply()([x, y]), x given by its layer.
MultiplyLayer(x_t, y, line) == ElemwiseLayer(y, "Multiply", x_t, y.t, line)

\* Add()([x, skip]), skip given by its layer.
AddLayer(x, skip_t, line) == ElemwiseLayer(x, "Add", x.t, skip_t, line)

_channel_attention_block(x, reduction) ==
    IF x.err # "none" THEN x
    ELSE
    LET y1 == _global_average_pooling(x)
        y2 == UnaryLayer(y1, "Reshape", 60,
                         [i \in 1..(_get_spatial_ndim(x) + 1) |->
                             IF i <= _get_spatial_ndim(x) THEN 1
                             ELSE _get_num_channels(x)])
        y3 == _conv(y2, _get_num_channels(x) \div reduction, 1, "relu", 63)
        y4 == _conv(y3, _get_num_channels(x), 1, "sigmoid", 64)
    IN  MultiplyLayer(x.t, y4, 66)

\* Lines 82-83: the Lambda layer exists only when residual_scaling != 1.0.
ScalingLayer(x, residual_scaling) ==
    IF x.err # "none" \/ residual_scaling = 10 THEN x
    ELSE UnaryLayer(x, "Lambda", 83, ShapeOf(x))

\* The loop of _residual_channel_attention_blocks; num_channels is read
\* once, before the loop.
RECURSIVE RcabLoop(_, _, _, _, _)
RcabLoop(x, num_channels, repeat, channel_reduction, residual_scaling) ==
    IF repeat <= 0 \/ x.err # "none" THEN x
    ELSE
    LET x1 == _conv(x, num_channels, 3, "relu", 77)
        x2 == _conv(x1, num_channels, 3, "none", 78)
        x3 == _channel_attention_block(x2, channel_reduction)
        x4 == ScalingLayer(x3, residual_scaling)
        x5 == AddLayer(x4, x.t, 85)
    IN  RcabLoop(x5, num_channels, repeat - 1, channel_reduction,
                 residual_scaling)

_residual_channel_attention_blocks(x, repeat, channel_reduction, residual_scaling) ==
    IF x.err # "none" THEN x
    ELSE RcabLoop(x, _get_num_channels(x), repeat, channel_reduction,
                  residual_scaling)

\* The loop over the residual groups in build_rcan (lines 173-184);
\* remaining counts the iterations still to run and a is build_rcan's
\* argument record.  GroupRest is lines 180-184 of one iteration: x is the
\* output of the RCAB stack.
RECURSIVE GroupLoop(_, _, _)

\* A plausible slip: the lone-group special case (lines 180-181) left out.
GroupRest_no_break(x, short_skip, remaining, a) ==
    GroupLoop(AddLayer(_conv(x, a.num_channels, 3, "none", 183),
                       short_skip, 184),
              remaining - 1, a)

GroupRest(x, short_skip, remaining, a) ==
    IF a.num_residual_groups = 1 THEN x
    ELSE GroupLoop(AddLayer(_conv(x, a.num_channels, 3, "none", 183),
                            short_skip, 184),
                   remaining - 1, a)

GroupLoop(x, remaining, a) ==
    IF remaining <= 0 \/ x.err # "none" THEN x
    ELSE GroupRest(_residual_channel_attention_blocks(
                       x, a.num_residual_blocks, a.channel_reduction,
                       a.residual_scaling),
                   x.t, remaining, a)

\* Lines 189-190.
OutputLayers(x, num_output_channels) ==
    LET y == _conv(x, num_output_channels, 3, "none", 189)
    IN  UnaryLayer(y, "Destandardise", 190, ShapeOf(y))

\* a is the record of build_rcan's arguments; the result is the output
\* tensor, whose nodes are the model's layers.
build_rcan(a, zero_filters_ok) ==
    LET inputs == Emit(NoTensor(zero_filters_ok),
                       Layer("Input", 166, a.input_shape, <<>>, 0, 0, "none"))
        x1 == UnaryLayer(inputs, "Standardise", 168, a.input_shape)
        x2 == _conv(x1, a.num_channels, 3, "none", 169)
        long_skip == x2.t
        x3 == GroupLoop(x2, a.num_residual_groups, a)
        x4 == _conv(x3, a.num_channels, 3, "none", 186)
        x5 == AddLayer(x4, long_skip, 187)
    IN  OutputLayers(x5, IF a.num_output_channels < 0
                         THEN a.input_shape[Len(a.input_shape)]
                         ELSE a.num_output_channels)

(* ========================= src/train.py =============================== *)

VARIABLES
    pc,                         \* the phase the run is about to execute
    error,                      \* the exception that ended the run, or "none"
    failed_at,                  \* the phase that raised it
    phases,                     \* the phases completed so far, in order
    user_config,                \* the configuration file as the user wrote it
    config,                     \* the config dict
    files,                      \* the TIFF files read so far: path -> file
    training_data,
    min_input_shape_training,
    validation_data,
    min_input_shape_validation,
    ndim,
    input_shape,
    build_args,                 \* the arguments build_rcan was called with
    model,                      \* the graph build_rcan assembled
    compiled,                   \* what model.compile was given
    data_gen,                   \* the shape DataGenerator was given
    output_dir_created,
    fit_started,
    written                     \* the files the training loop wrote

vars ==
    <<pc, error, failed_at, phases, user_config, config, files, training_data,
      min_input_shape_training, validation_data, min_input_shape_validation,
      ndim, input_shape, build_args, model, compiled, data_gen,
      output_dir_created, fit_started, written>>

(* ---------------------- the configuration files ----------------------- *)

TrainingKeys == {"training_image_pairs", "training_data_dir"}

ValidationKeys == {"validation_image_pairs", "validation_data_dir"}

\* The keys train.py gives a default, in the order of lines 140-152.
DefaultsOrder ==
    <<"epochs", "steps_per_epoch", "batch_size", "num_channels",
      "num_residual_blocks", "num_residual_groups", "channel_reduction",
      "data_augmentation", "intensity_threshold", "area_ratio_threshold",
      "initial_learning_rate", "loss", "metrics">>

OptionalKeys == {DefaultsOrder[i] : i \in DOMAIN DefaultsOrder}

SchemaProperties ==
    TrainingKeys \cup ValidationKeys \cup {"input_shape"} \cup OptionalKeys

\* A path is a tuple: an explicitly listed file is <<split, "list", t, i>>,
\* a directory is <<split, "dir", t>> and its i-th *.tif file, in sorted
\* order, is <<split, "dir", t, i>>.
PairList(split, n) ==
    [i \in 1..n |-> [raw |-> <<split, "list", "raw", i>>,
                     gt  |-> <<split, "list", "gt", i>>]]

DataDir(split) ==
    [raw |-> <<split, "dir", "raw">>, gt |-> <<split, "dir", "gt">>]

\* Values a user may give the optional keys: two that the schema accepts and
\* one that it refuses on every key that carries a constraint.
HyperSmall ==
    [epochs |-> 2, steps_per_epoch |-> 2, batch_size |-> 2,
     num_channels |-> 2, num_residual_blocks |-> 1, num_residual_groups |-> 1,
     channel_reduction |-> 2, data_augmentation |-> FALSE,
     intensity_threshold |-> 500000, area_ratio_threshold |-> 250000,
     initial_learning_rate |-> 1000, loss |-> "mse",
     metrics |-> <<"psnr", "ssim">>]

HyperWide ==
    [epochs |-> 8, steps_per_epoch |-> 1, batch_size |-> 4,
     num_channels |-> 2, num_residual_blocks |-> 2, num_residual_groups |-> 2,
     channel_reduction |-> 4, data_augmentation |-> TRUE,
     intensity_threshold |-> 0, area_ratio_threshold |-> 1000000,
     initial_learning_rate |-> 1, loss |-> "mae", metrics |-> <<>>]

HyperRefused ==
    [epochs |-> 0, steps_per_epoch |-> 0, batch_size |-> 0,
     num_channels |-> 0, num_residual_blocks |-> 0, num_residual_groups |-> 0,
     channel_reduction |-> 0, data_augmentation |-> TRUE,
     intensity_threshold |-> 250000, area_ratio_threshold |-> 1000001,
     initial_learning_rate |-> 0, loss |-> "huber", metrics |-> <<"mse">>]

HyperProfiles == {HyperSmall, HyperWide, HyperRefused}

\* input_shape values: two the schema accepts, three it refuses.
ConfigShapes == {<<4, 20>>, <<20, 4, 20>>, <<4>>, <<4, 4, 4, 4>>, <<0, 4>>}

UserValue(k, p) ==
    CASE k = "training_image_pairs" -> PairList("training", p.npairs)
      [] k = "validation_image_pairs" -> PairList("validation", p.npairs)
      [] k = "training_data_dir" -> DataDir("training")
      [] k = "validation_data_dir" -> DataDir("validation")
      [] k = "input_shape" -> p.input_shape
      [] k \in OptionalKeys -> p.hyper[k]
      [] OTHER -> "unknown"

MakeConfig(keys, p) == [k \in keys |-> UserValue(k, p)]

\* Lengths of the explicit pair lists a configuration may hold (the schema
\* refuses the empty list).
ListLengths == {0, 1}

SourceConfigs ==
    { MakeConfig(tk \cup vk,
                 [npairs |-> n, input_shape |-> <<>>, hyper |-> HyperSmall]) :
        tk \in SUBSET TrainingKeys, vk \in SUBSET ValidationKeys,
        n \in ListLengths }

ShapeConfigs ==
    { MakeConfig(TrainingKeys \cup {"input_shape"} \cup vk \cup hk,
                 [npairs |-> 1, input_shape |-> s, hyper |-> HyperSmall]) :
        vk \in SUBSET {"validation_image_pairs"}, s \in ConfigShapes,
        hk \in {{}, {"num_channels", "num_residual_blocks"}} }

HyperConfigs ==
    { MakeConfig({"training_image_pairs"} \cup hk,
                 [npairs |-> 1, input_shape |-> <<>>, hyper |-> h]) :
        hk \in {ks \in SUBSET (OptionalKeys \cup {"comment"}) :
                   Cardinality(ks) <= 2},
        h \in HyperProfiles }

ConfigFiles == SourceConfigs \cup ShapeConfigs \cup HyperConfigs

(* --------------------------- the schema --------------------------------- *)

IntegerMin1Keys ==
    {"num_channels", "num_residual_blocks", "num_residual_groups",
     "channel_reduction", "epochs", "steps_per_epoch", "batch_size"}

\* The constraints of one property of the schema (lines 88-113, 128-132);
\* the configurations are drawn well-typed, so "type" holds of each.
PropertyValid(k, v) ==
    CASE k \in {"training_image_pairs", "validation_image_pairs"} ->
            Len(v) >= 1
      [] k = "input_shape" ->
            /\ Len(v) >= 2
            /\ Len(v) <= 3
            /\ \A i \in 1..Len(v) : v[i] >= 1
      [] k \in IntegerMin1Keys -> v >= 1
      [] k = "area_ratio_threshold" -> v >= 0 /\ v <= 1000000
      [] k = "initial_learning_rate" -> v >= 1
      [] k = "loss" -> v \in {"mae", "mse"}
      [] k = "metrics" -> \A i \in 1..Len(v) : v[i] \in {"psnr", "ssim"}
      [] OTHER -> TRUE

\* A plausible slip: 'additionalProperties': False left out of the schema.
schema_open(cfg) ==
    /\ \A k \in DOMAIN cfg \cap SchemaProperties : PropertyValid(k, cfg[k])
    /\ \/ "training_image_pairs" \in DOMAIN cfg
       \/ "training_data_dir" \in DOMAIN cfg

\* jsonschema.validate(config, schema) does not raise.
schema(cfg) ==
    /\ \A k \in DOMAIN cfg \cap SchemaProperties : PropertyValid(k, cfg[k])
    /\ DOMAIN cfg \subseteq SchemaProperties
    /\ \/ "training_image_pairs" \in DOMAIN cfg
       \/ "training_data_dir" \in DOMAIN cfg

Default(k) ==
    CASE k = "epochs" -> 300
      [] k = "steps_per_epoch" -> 256
      [] k = "batch_size" -> 1
      [] k = "num_channels" -> 32
      [] k = "num_residual_blocks" -> 3
      [] k = "num_residual_groups" -> 5
      [] k = "channel_reduction" -> 8
      [] k = "data_augmentation" -> TRUE
      [] k = "intensity_threshold" -> 250000
      [] k = "area_ratio_threshold" -> 500000
      [] k = "initial_learning_rate" -> 100
      [] k = "loss" -> "mae"
      [] k = "metrics" -> <<"psnr">>

\* A plausible slip: config[k] = d in place of config.setdefault(k, d).
setdefault_overwrite(cfg, k, d) ==
    [j \in DOMAIN cfg \cup {k} |-> IF j = k THEN d ELSE cfg[j]]

setdefault(cfg, k, d) ==
    [j \in DOMAIN cfg \cup {k} |-> IF j \in DOMAIN cfg THEN cfg[j] ELSE d]

RECURSIVE SetDefaults(_, _)
SetDefaults(cfg, i) ==
    IF i > Len(DefaultsOrder) THEN cfg
    ELSE SetDefaults(setdefault(cfg, DefaultsOrder[i], Default(DefaultsOrder[i])),
                     i + 1)

(* ------------------------- the files on disk ---------------------------- *)

\* Shapes a TIFF file may have: 1-D, 2-D, 3-D and 4-D images, with extents
\* on both sides of the defaults 16 and 256.
ImageShapes ==
    {<<8>>, <<8, 300>>, <<300, 8>>, <<8, 300, 300>>, <<20, 8, 300>>,
     <<8, 8, 8, 8>>}

Missing == [exists |-> FALSE, shape |-> <<>>]

Tiff(shape) == [exists |-> TRUE, shape |-> shape]

NoFiles == [path \in {} |-> Missing]

\* A shape that differs from s on its last axis only.
Bump(s) == [s EXCEPT ![Len(s)] = @ + 1]

\* What tifffile.imread may find at a path: a file read before is unchanged;
\* a listed path may not exist, a globbed one does.
RawFiles(path, fs) ==
    IF path \in DOMAIN fs THEN {fs[path]}
    ELSE IF path[2] = "list"
         THEN {Missing} \cup {Tiff(s) : s \in ImageShapes}
    ELSE {Tiff(s) : s \in ImageShapes}

GtFiles(path, raw, fs) ==
    IF path \in DOMAIN fs THEN {fs[path]}
    ELSE {Tiff(raw.shape), Tiff(Bump(raw.shape))}

Known(fs, path, file) == (path :> file) @@ fs

(* --------------------------- load_data_paths ---------------------------- *)

NpBroadcastable(a, b) == Len(a) = Len(b) \/ Len(a) = 1 \/ Len(b) = 1

\* np.minimum on two broadcastable 1-D arrays.
np_minimum(a, b) ==
    [i \in 1..Max(Len(a), Len(b)) |->
        Min(a[IF Len(a) = 1 THEN 1 ELSE i], b[IF Len(b) = 1 THEN 1 ELSE i])]

\* A plausible slip: the pair compared by number of dimensions only.
ShapesDiffer_ndim_only(raw, gt) == Len(raw.shape) # Len(gt.shape)

\* raw.shape != gt.shape (line 62).
ShapesDiffer(raw, gt) == raw.shape # gt.shape

\* for ndim in ndim_list: if ndim != ndim_list[0] (lines 67-68).
NdimsDiffer(shapes) == \E i \in 1..Len(shapes) : Len(shapes[i]) # Len(shapes[1])

\* The loop of lines 52-66 from pair i on, over everything the files may
\* hold: the set of its results.  A result carries the files read, the
\* shapes collected and the exception raised ("none" when the loop ends).
RECURSIVE VerifyPairs(_, _, _, _)
VerifyPairs(list, i, fs, shapes) ==
    IF i > Len(list)
    THEN {[files |-> fs, shapes |-> shapes, error |-> "none"]}
    ELSE UNION {
        IF ~raw.exists
        THEN {[files |-> Known(fs, list[i].raw, raw), shapes |-> shapes,
               error |-> "FileNotFoundError"]}
        ELSE UNION {
            LET fs2 == Known(Known(fs, list[i].raw, raw), list[i].gt, gt)
                shapes2 == Append(shapes, raw.shape)
            IN  IF ShapesDiffer(raw, gt)
                THEN {[files |-> fs2, shapes |-> shapes2,
                       error |-> "ValueError"]}
                ELSE VerifyPairs(list, i + 1, fs2, shapes2)
            : gt \in GtFiles(list[i].gt, raw, fs) }
        : raw \in RawFiles(list[i].raw, fs) }

\* The fold of lines 73-75; ok is FALSE when np.minimum cannot broadcast.
RECURSIVE FoldMinimum(_, _, _)
FoldMinimum(acc, shapes, i) ==
    IF i > Len(shapes) THEN [ok |-> TRUE, shape |-> acc]
    ELSE IF ~NpBroadcastable(acc, shapes[i]) THEN [ok |-> FALSE, shape |-> acc]
    ELSE FoldMinimum(np_minimum(acc, shapes[i]), shapes, i + 1)

\* What load_data_paths leaves behind: the config dict (the list it appends
\* to is the config's own), the files read, and either an exception or the
\* returned pair (data, min_shape).
Outcome(cfg, fs, e, data, min_shape) ==
    [config |-> cfg, files |-> fs, error |-> e, data |-> data,
     min_shape |-> min_shape]

\* Lines 48-77, once image_pair_list is complete.
VerifyAndFold(cfg, fs, image_pair_list) ==
    IF image_pair_list = <<>> THEN {Outcome(cfg, fs, "none", None, None)}
    ELSE
    { IF v.error # "none" THEN Outcome(cfg, v.files, v.error, None, None)
      ELSE IF NdimsDiffer(v.shapes)
           THEN Outcome(cfg, v.files, "ValueError", None, None)
      ELSE IF ~FoldMinimum(v.shapes[1], v.shapes, 1).ok
           THEN Outcome(cfg, v.files, "ValueError", None, None)
      ELSE Outcome(cfg, v.files, "none", image_pair_list,
                   FoldMinimum(v.shapes[1], v.shapes, 1).shape)
      : v \in VerifyPairs(image_pair_list, 1, fs, <<>>) }

PairsKey(data_type) ==
    IF data_type = "training" THEN "training_image_pairs"
    ELSE "validation_image_pairs"

DirKey(data_type) ==
    IF data_type = "training" THEN "training_data_dir"
    ELSE "validation_data_dir"

\* sorted(d.glob('*.tif')) for a directory holding n TIFF files.
Glob(dir, n) == [i \in 1..n |-> Append(dir, i)]

\* load_data_paths(config, data_type): the set of its outcomes over what the
\* directories and the files may hold.
load_data_paths(cfg, data_type, fs) ==
    LET pk == PairsKey(data_type)
        dk == DirKey(data_type)
        image_pair_list == IF pk \in DOMAIN cfg THEN cfg[pk] ELSE <<>>
    IN  IF dk \notin DOMAIN cfg THEN VerifyAndFold(cfg, fs, image_pair_list)
        ELSE UNION {
            LET raw_files == Glob(cfg[dk].raw, n[1])
                gt_files == Glob(cfg[dk].gt, n[2])
                appended == image_pair_list \o
                            [i \in 1..Len(raw_files) |->
                                [raw |-> raw_files[i], gt |-> gt_files[i]]]
                cfg2 == IF pk \in DOMAIN cfg
                        THEN [cfg EXCEPT ![pk] = appended]
                        ELSE cfg
            IN  IF raw_files = <<>>
                THEN {Outcome(cfg, fs, "RuntimeError", None, None)}
                ELSE IF Len(raw_files) # Len(gt_files)
                     THEN {Outcome(cfg, fs, "RuntimeError", None, None)}
                ELSE VerifyAndFold(cfg2, fs, appended)
            : n \in (0..MaxFiles) \X (0..MaxFiles) }

(* --------------------------- the run ------------------------------------ *)

NoArgs ==
    [input_shape |-> <<>>, num_channels |-> 0, num_residual_blocks |-> 0,
     num_residual_groups |-> 0, channel_reduction |-> 0,
     residual_scaling |-> 10, num_output_channels |-> -1]

NoModel == NoTensor(TRUE)

NoCompile == [learning_rate |-> 0, loss |-> "", metrics |-> <<>>]

NoDataGen ==
    [input_shape |-> <<>>, batch_size |-> 0, transform_function |-> "",
     intensity_threshold |-> 0, area_ratio_threshold |-> 0,
     checkpoint_filepath |-> ""]

\* Everything but pc, config, user_config and build_args, before the run.
Fresh ==
    /\ error = "none"
    /\ failed_at = "none"
    /\ phases = <<>>
    /\ files = NoFiles
    /\ training_data = None
    /\ min_input_shape_training = None
    /\ validation_data = None
    /\ min_input_shape_validation = None
    /\ ndim = 0
    /\ input_shape = None
    /\ model = NoModel
    /\ compiled = NoCompile
    /\ data_gen = NoDataGen
    /\ output_dir_created = FALSE
    /\ fit_started = FALSE
    /\ written = {}

Init ==
    /\ pc = "validate"
    /\ user_config \in ConfigFiles
    /\ config = user_config
    /\ build_args = NoArgs
    /\ Fresh

Advance(phase, next) ==
    /\ pc' = next
    /\ phases' = Append(phases, phase)
    /\ UNCHANGED <<error, failed_at>>

RaiseAt(e, phase) ==
    /\ pc' = "error"
    /\ error' = e
    /\ failed_at' = phase
    /\ UNCHANGED phases

\* The validation of a script that creates its output directory first.
Validate_mkdir_first ==
    /\ pc = "validate"
    /\ IF schema(config)
       THEN Advance("validate", "defaults")
       ELSE RaiseAt("ValidationError", "validate")
    /\ output_dir_created' = TRUE
    /\ UNCHANGED <<user_config, config, files, training_data,
                   min_input_shape_training, validation_data,
                   min_input_shape_validation, ndim, input_shape, build_args,
                   model, compiled, data_gen, fit_started, written>>

\* jsonschema.validate(config, schema), line 139.
Validate ==
    /\ pc = "validate"
    /\ IF schema(config)
       THEN Advance("validate", "defaults")
       ELSE RaiseAt("ValidationError", "validate")
    /\ UNCHANGED <<user_config, config, files, training_data,
                   min_input_shape_training, validation_data,
                   min_input_shape_validation, ndim, input_shape, build_args,
                   model, compiled, data_gen, output_dir_created, fit_started,
                   written>>

\* Lines 140-152.
ApplyDefaults ==
    /\ pc = "defaults"
    /\ config' = SetDefaults(config, 1)
    /\ Advance("defaults", "load_training")
    /\ UNCHANGED <<user_config, files, training_data,
                   min_input_shape_training, validation_data,
                   min_input_shape_validation, ndim, input_shape, build_args,
                   model, compiled, data_gen, output_dir_created, fit_started,
                   written>>

\* Line 154.
LoadTraining ==
    /\ pc = "load_training"
    /\ \E o \in load_data_paths(config, "training", files) :
        /\ config' = o.config
        /\ files' = o.files
        /\ IF o.error # "none"
           THEN /\ RaiseAt(o.error, "load_training")
                /\ UNCHANGED <<training_data, min_input_shape_training>>
           ELSE /\ training_data' = o.data
                /\ min_input_shape_training' = o.min_shape
                /\ Advance("load_training", "load_validation")
    /\ UNCHANGED <<user_config, validation_data, min_input_shape_validation,
                   ndim, input_shape, build_args, model, compiled, data_gen,
                   output_dir_created, fit_started, written>>

\* Lines 155-157.
LoadValidation ==
    /\ pc = "load_validation"
    /\ \E o \in load_data_paths(config, "validation", files) :
        /\ config' = o.config
        /\ files' = o.files
        /\ IF o.error # "none"
           THEN /\ RaiseAt(o.error, "load_validation")
                /\ UNCHANGED <<validation_data, min_input_shape_validation>>
           ELSE /\ validation_data' = o.data
                /\ min_input_shape_validation' = o.min_shape
                /\ Advance("load_validation", "resolve")
    /\ UNCHANGED <<user_config, training_data, min_input_shape_training,
                   ndim, input_shape, build_args, model, compiled, data_gen,
                   output_dir_created, fit_started, written>>

\* The shape lines 165-172 start from.
BaseShape(cfg, nd) ==
    IF "input_shape" \in DOMAIN cfg THEN cfg["input_shape"]
    ELSE IF nd = 3 THEN <<16, 256, 256>> ELSE <<256, 256>>

\* Lines 159-176.
ResolveInputShape ==
    /\ pc = "resolve"
    /\ LET nd == Len(files[training_data[1].raw].shape)
           val == validation_data # None
           base == BaseShape(config, nd)
           s1 == np_minimum(base, min_input_shape_training)
       IN  /\ ndim' = nd
           /\ IF val /\ Len(files[validation_data[1].raw].shape) # nd
              THEN RaiseAt("ValueError", "resolve") /\ UNCHANGED input_shape
              ELSE IF "input_shape" \in DOMAIN config /\ Len(base) # nd
              THEN RaiseAt("ValueError", "resolve") /\ UNCHANGED input_shape
              ELSE IF ~NpBroadcastable(base, min_input_shape_training)
              THEN RaiseAt("ValueError", "resolve") /\ UNCHANGED input_shape
              ELSE IF val /\ ~NpBroadcastable(s1, min_input_shape_validation)
              THEN RaiseAt("ValueError", "resolve") /\ UNCHANGED input_shape
              ELSE /\ input_shape' =
                          IF val
                          THEN np_minimum(s1, min_input_shape_validation)
                          ELSE s1
                   /\ Advance("resolve", "build")
    /\ UNCHANGED <<user_config, config, files, training_data,
                   min_input_shape_training, validation_data,
                   min_input_shape_validation, build_args, model, compiled,
                   data_gen, output_dir_created, fit_started, written>>

\* Lines 188-194.
BuildModel ==
    /\ pc = "build"
    /\ \E zero_filters_ok \in BOOLEAN :
        LET a == [input_shape |-> Append(input_shape, 1),
                  num_channels |-> config["num_channels"],
                  num_residual_blocks |-> config["num_residual_blocks"],
                  num_residual_groups |-> config["num_residual_groups"],
                  channel_reduction |-> config["channel_reduction"],
                  residual_scaling |-> 10,
                  num_output_channels |-> -1]
            g == build_rcan(a, zero_filters_ok)
        IN  /\ build_args' = a
            /\ model' = g
            /\ IF g.err # "none"
               THEN RaiseAt(g.err, "build")
               ELSE Advance("build", "compile")
    /\ UNCHANGED <<user_config, config, files, training_data,
                   min_input_shape_training, validation_data,
                   min_input_shape_validation, ndim, input_shape, compiled,
                   data_gen, output_dir_created, fit_started, written>>

\* Lines 196-205.
Compile ==
    /\ pc = "compile"
    /\ compiled' = [learning_rate |-> config["initial_learning_rate"],
                    loss |-> config["loss"], metrics |-> config["metrics"]]
    /\ Advance("compile", "data_gen")
    /\ UNCHANGED <<user_config, config, files, training_data,
                   min_input_shape_training, validation_data,
                   min_input_shape_validation, ndim, input_shape, build_args,
                   model, data_gen, output_dir_created, fit_started, written>>

\* Lines 207-230; the generator is an external collaborator and may raise.
CreateDataGenerator ==
    /\ pc = "data_gen"
    /\ \E ok \in BOOLEAN :
        IF ok
        THEN /\ data_gen' =
                    [input_shape |-> input_shape,
                     batch_size |-> config["batch_size"],
                     transform_function |->
                         IF config["data_augmentation"]
                         THEN "rotate_and_flip" ELSE "None",
                     intensity_threshold |-> config["intensity_threshold"],
                     area_ratio_threshold |-> config["area_ratio_threshold"],
                     checkpoint_filepath |->
                         IF validation_data # None
                         THEN "weights_{epoch:03d}_{val_loss:.8f}.keras"
                         ELSE "weights_{epoch:03d}_{loss:.8f}.keras"]
             /\ Advance("data_gen", "mkdir")
        ELSE /\ RaiseAt("Exception", "data_gen")
             /\ UNCHANGED data_gen
    /\ UNCHANGED <<user_config, config, files, training_data,
                   min_input_shape_training, validation_data,
                   min_input_shape_validation, ndim, input_shape, build_args,
                   model, compiled, output_dir_created, fit_started, written>>

\* Lines 232-233.
MakeOutputDir ==
    /\ pc = "mkdir"
    /\ \E ok \in BOOLEAN :
        IF ok
        THEN output_dir_created' = TRUE /\ Advance("mkdir", "fit")
        ELSE UNCHANGED output_dir_created /\ RaiseAt("OSError", "mkdir")
    /\ UNCHANGED <<user_config, config, files, training_data,
                   min_input_shape_training, validation_data,
                   min_input_shape_validation, ndim, input_shape, build_args,
                   model, compiled, data_gen, fit_started, written>>

\* Lines 236-258: the training loop, which writes the TensorBoard events, the
\* checkpoints and ./log.csv, and may raise on the way.
Fit ==
    /\ pc = "fit"
    /\ fit_started' = TRUE
    /\ written' = {"events", data_gen.checkpoint_filepath, "./log.csv"}
    /\ \E ok \in BOOLEAN :
        IF ok THEN Advance("fit", "done") ELSE RaiseAt("Exception", "fit")
    /\ UNCHANGED <<user_config, config, files, training_data,
                   min_input_shape_training, validation_data,
                   min_input_shape_validation, ndim, input_shape, build_args,
                   model, compiled, data_gen, output_dir_created>>

Next ==
    \/ Validate
    \/ ApplyDefaults
    \/ LoadTraining
    \/ LoadValidation
    \/ ResolveInputShape
    \/ BuildModel
    \/ Compile
    \/ CreateDataGenerator
    \/ MakeOutputDir
    \/ Fit

Spec == Init /\ [][Next]_vars

(* ----------------- build_rcan called as a library function -------------- *)

BuildInputShapes ==
    {<<1>>, <<4, 1>>, <<4, 6, 1>>, <<4, 6, 2>>, <<3, 4, 6, 1>>,
     <<3, 4, 6, 2>>, <<2, 3, 4, 6, 1>>}

BuildArgs ==
    [input_shape : BuildInputShapes,
     num_channels : 1..MaxChannels,
     num_residual_blocks : 1..MaxBlocks,
     num_residual_groups : 1..MaxGroups,
     channel_reduction : 1..MaxReduction,
     residual_scaling : {10, 5},
     num_output_channels : (-1)..MaxOutputChannels]

NoConfig == [k \in {} |-> 0]

InitBuild ==
    /\ pc = "build_rcan"
    /\ build_args \in BuildArgs
    /\ user_config = NoConfig
    /\ config = NoConfig
    /\ Fresh

CallBuildRcan ==
    /\ pc = "build_rcan"
    /\ \E zero_filters_ok \in BOOLEAN :
        /\ model' = build_rcan(build_args, zero_filters_ok)
        /\ pc' = IF model'.err # "none" THEN "raised" ELSE "returned"
    /\ UNCHANGED <<error, failed_at, phases, user_config, config, files,
                   training_data, min_input_shape_training, validation_data,
                   min_input_shape_validation, ndim, input_shape, build_args,
                   compiled, data_gen, output_dir_created, fit_started,
                   written>>

NextBuild == CallBuildRcan

SpecBuild == InitBuild /\ [][NextBuild]_vars

(* =========================== properties ================================= *)

Completed(phase) == \E i \in DOMAIN phases : phases[i] = phase

MinOf(S) == CHOOSE m \in S : \A n \in S : m <= n

\* The shapes of the raw images of a split, as read from disk.
RawShapes(data) == {files[data[i].raw].shape : i \in DOMAIN data}

AllRawShapes == RawShapes(training_data) \cup RawShapes(validation_data)

\* The shape the documentation starts from: the configured input_shape, or
\* (16,256,256) for 3-D images and (256,256) otherwise.
DocumentedBase ==
    IF "input_shape" \in DOMAIN user_config THEN user_config["input_shape"]
    ELSE IF \A s \in AllRawShapes : Len(s) = 3 THEN <<16, 256, 256>>
    ELSE <<256, 256>>

AxiswiseMinimum ==
    \A i \in DOMAIN input_shape :
        /\ i \in DOMAIN DocumentedBase
        /\ \A s \in AllRawShapes : i \in DOMAIN s
        /\ input_shape[i] =
               MinOf({DocumentedBase[i]} \cup {s[i] : s \in AllRawShapes})

\* C1: once the input shape is resolved, it is on every axis the minimum of
\* the configured (or default) shape and the shapes of all training and
\* validation images, so it exceeds no image on any axis.
C1_ResolvedShapeIsMinimum == Completed("resolve") => AxiswiseMinimum

\* C1, restricted to 2-D and 3-D images: there the resolved shape is the
\* axis-wise minimum.
C1_ResolvedShapeIsMinimum_2D3D ==
    (Completed("resolve") /\ ndim \in {2, 3}) => AxiswiseMinimum

C1_Witness_2D3D ==
    /\ Completed("resolve")
    /\ ndim = 3
    /\ validation_data # None
    /\ Cardinality(AllRawShapes) >= 2
    /\ input_shape = <<8, 8, 256>>

\* C2: whenever the run reaches model assembly, the resolved input shape has
\* as many axes as the images have dimensions.
C2_ResolvedRankIsImageRank ==
    Completed("resolve") =>
        \A s \in AllRawShapes : Len(input_shape) = Len(s)

\* C2, restricted to 2-D, 3-D and 4-D images.
C2_ResolvedRankIsImageRank_not1D ==
    (Completed("resolve") /\ ndim # 1) =>
        \A s \in AllRawShapes : Len(input_shape) = Len(s)

(* ------------------------------ build_rcan ------------------------------ *)

Spatial(shape) == SubSeq(shape, 1, Len(shape) - 1)

Channels(shape) == shape[Len(shape)]

AllOnes(shape) == \A i \in DOMAIN shape : shape[i] = 1

CountLine(line) ==
    Cardinality({i \in DOMAIN model.nodes : model.nodes[i].line = line})

\* The arguments C3 speaks of: 2 or 3 spatial axes, hyperparameters >= 1 and
\* an attention bottleneck of at least one channel.
C3_Arguments ==
    /\ pc \in {"returned", "raised"}
    /\ Len(Spatial(build_args.input_shape)) \in {2, 3}
    /\ build_args.num_channels >= 1
    /\ build_args.num_residual_blocks >= 1
    /\ build_args.num_residual_groups >= 1
    /\ build_args.num_channels \div build_args.channel_reduction >= 1

C3_OutputShape ==
    /\ pc = "returned"
    /\ ShapeOf(model) =
           Append(Spatial(build_args.input_shape),
                  IF build_args.num_output_channels < 0
                  THEN Channels(build_args.input_shape)
                  ELSE build_args.num_output_channels)

\* The layers of the channel-attention descriptor: the pooling (lines 35,
\* 37), the reshape (60) and the two 1x1 convolutions (63, 64).
DescriptorLines == {35, 37, 60, 63, 64}

\* C3 as stated: for these arguments build_rcan returns a graph of output
\* shape (*S, K) for K >= 0, (*S, Cin) for K < 0, and every tensor of the
\* graph has spatial shape S.
C3_EveryTensorKeepsShape ==
    C3_Arguments =>
        /\ C3_OutputShape
        /\ \A i \in DOMAIN model.nodes :
               Spatial(model.nodes[i].shape) = Spatial(build_args.input_shape)

\* C3 as amended: for these arguments and K >= 1 or K < 0, build_rcan
\* returns a graph of output shape (*S, K), (*S, Cin) for K < 0; every
\* tensor outside the channel-attention descriptor has spatial shape S, the
\* pooled descriptor has no spatial axis and the rest of the descriptor has
\* extent 1 on each of its spatial axes, as many as S has.
C3_MainPathKeepsShape ==
    (C3_Arguments /\ build_args.num_output_channels # 0) =>
        /\ C3_OutputShape
        /\ \A i \in DOMAIN model.nodes :
               LET layer == model.nodes[i]
               IN  IF layer.line \in {35, 37}
                   THEN Spatial(layer.shape) = <<>>
                   ELSE IF layer.line \in DescriptorLines
                   THEN /\ AllOnes(Spatial(layer.shape))
                        /\ Len(layer.shape) = Len(build_args.input_shape)
                   ELSE Spatial(layer.shape) =
                            Spatial(build_args.input_shape)

C3_Witness ==
    /\ C3_Arguments
    /\ pc = "returned"
    /\ build_args.input_shape = <<3, 4, 6, 1>>
    /\ build_args.num_output_channels = 2
    /\ ShapeOf(model) = <<3, 4, 6, 2>>
    /\ CountLine(66) >= 2

\* Layers of one residual channel attention block: two convolutions, the
\* four descriptor layers, the multiply, the optional scaling and the add.
BlockLength == IF build_args.residual_scaling = 10 THEN 8 ELSE 9

StackLength == build_args.num_residual_blocks * BlockLength

\* The tensor a group starts from: the latest stem convolution (line 169)
\* or group add (line 184) created before layer j.
GroupInput(j) ==
    MinOf({0 - i : i \in {k \in 1..(j - 1) :
                             model.nodes[k].line \in {169, 184}}}) * (0 - 1)

\* C9: with one residual group the graph has no group-level convolution or
\* add, and the RCAB stack is followed by exactly the long-skip convolution
\* and add, the output convolution and the de-standardisation; with G >= 2
\* groups each group adds one convolution and one add with the group's own
\* input, in sequence; so two groups make a graph longer than one group by
\* more than one RCAB stack.
C9_LoneGroupHasNoSkip ==
    pc = "returned" =>
        LET n == Len(model.nodes)
            G == build_args.num_residual_groups
        IN  /\ G = 1 =>
                /\ CountLine(183) = 0
                /\ CountLine(184) = 0
                /\ n = 3 + StackLength + 4
                /\ model.nodes[n - 4].line = 85
                /\ [i \in 1..4 |-> model.nodes[n - 4 + i].line]
                       = <<186, 187, 189, 190>>
                /\ model.nodes[n - 3].inputs = <<n - 4>>
                /\ model.nodes[n - 2].inputs = <<n - 3, 3>>
            /\ G >= 2 =>
                /\ CountLine(183) = G
                /\ CountLine(184) = G
                /\ n = 3 + G * (StackLength + 2) + 4
                /\ \A j \in DOMAIN model.nodes :
                       model.nodes[j].line = 184 =>
                           /\ model.nodes[j - 1].line = 183
                           /\ model.nodes[j].inputs = <<j - 1, GroupInput(j)>>
                           /\ model.nodes[GroupInput(j) + 1].line = 77
                           /\ model.nodes[GroupInput(j) + 1].inputs
                                  = <<GroupInput(j)>>
            /\ G = 2 => n > (3 + StackLength + 4) + StackLength

C9_Witness ==
    /\ pc = "returned"
    /\ build_args.num_residual_groups = 1
    /\ build_args.num_residual_blocks = 2
    /\ CountLine(85) = 2
    /\ CountLine(183) = 0

(* ------------------------------ the config ------------------------------ *)

DocumentedDefault(k) ==
    CASE k = "epochs" -> 300
      [] k = "steps_per_epoch" -> 256
      [] k = "batch_size" -> 1
      [] k = "num_channels" -> 32
      [] k = "num_residual_blocks" -> 3
      [] k = "num_residual_groups" -> 5
      [] k = "channel_reduction" -> 8
      [] k = "data_augmentation" -> TRUE
      [] k = "intensity_threshold" -> 250000
      [] k = "area_ratio_threshold" -> 500000
      [] k = "initial_learning_rate" -> 100
      [] k = "loss" -> "mae"
      [] k = "metrics" -> <<"psnr">>

\* C4: once the defaults are applied, every optional hyperparameter holds
\* the user's value if the user gave one and the documented default
\* otherwise.
C4_DefaultsFillOnlyUnset ==
    Completed("defaults") =>
        \A k \in OptionalKeys :
            /\ k \in DOMAIN config
            /\ config[k] = IF k \in DOMAIN user_config THEN user_config[k]
                           ELSE DocumentedDefault(k)

C4_Witness ==
    /\ Completed("defaults")
    /\ "epochs" \notin DOMAIN user_config
    /\ config["epochs"] = 300
    /\ "loss" \in DOMAIN user_config
    /\ config["loss"] = "mse"

Rejectable(cfg) ==
    \/ DOMAIN cfg \cap TrainingKeys = {}
    \/ ~(DOMAIN cfg \subseteq SchemaProperties)

\* C5: a config with neither training_image_pairs nor training_data_dir, or
\* with a top-level key outside the schema, is rejected by the validator
\* and reaches no later phase.
C5_ClosedSchemaRejects ==
    Rejectable(user_config) =>
        /\ pc \in {"validate", "error"}
        /\ pc = "error" => error = "ValidationError" /\ failed_at = "validate"
        /\ phases = <<>>
        /\ config = user_config
        /\ files = NoFiles
        /\ model = NoModel
        /\ ~fit_started

C5_Witness ==
    /\ pc = "error"
    /\ error = "ValidationError"
    /\ "comment" \in DOMAIN user_config
    /\ DOMAIN user_config \cap TrainingKeys # {}
    /\ \A k \in DOMAIN user_config \cap SchemaProperties :
           PropertyValid(k, user_config[k])

\* What load_data_paths may return for a split: nothing, or a list in which
\* every pair's raw and ground-truth files have one shape and all pairs one
\* number of dimensions, together with a minimal shape.
ReturnedOnlyIfConsistent(data, min_shape) ==
    IF data = None THEN min_shape = None
    ELSE /\ min_shape # None
         /\ \A i \in DOMAIN data :
                /\ data[i].raw \in DOMAIN files
                /\ data[i].gt \in DOMAIN files
                /\ files[data[i].raw].exists
                /\ files[data[i].gt].exists
                /\ files[data[i].raw].shape = files[data[i].gt].shape
                /\ Len(files[data[i].raw].shape)
                       = Len(files[data[1].raw].shape)

\* C6: load_data_paths returns a pair list and a minimal shape only when
\* every pair's raw shape equals its ground-truth shape and all pairs have
\* one dimensionality; when it raises, it returns neither.
C6_LoadRejectsInconsistentPairs ==
    /\ ReturnedOnlyIfConsistent(training_data, min_input_shape_training)
    /\ ReturnedOnlyIfConsistent(validation_data, min_input_shape_validation)
    /\ Completed("load_training") => training_data # None
    /\ failed_at = "load_training" => training_data = None
    /\ failed_at = "load_validation" => validation_data = None

C6_Witness ==
    /\ failed_at = "load_training"
    /\ error = "ValueError"
    /\ \E p \in DOMAIN files :
           /\ p[3] = "raw"
           /\ <<p[1], p[2], "gt", p[4]>> \in DOMAIN files
           /\ files[p].shape # files[<<p[1], p[2], "gt", p[4]>>].shape
           /\ Len(files[p].shape) = Len(files[<<p[1], p[2], "gt", p[4]>>].shape)

PhaseOrder ==
    <<"validate", "defaults", "load_training", "load_validation", "resolve",
      "build", "compile", "data_gen", "mkdir", "fit">>

EagerPhases ==
    {"validate", "defaults", "load_training", "load_validation", "resolve",
     "build", "compile"}

\* C7: the training loop starts only after validation, the two
\* reconciliations, the shape resolution, the assembly and the compilation
\* have completed in that order; a run that one of them ends with an error
\* has not started the loop, created the output directory or written a
\* checkpoint or log.
C7_ErrorsBeforeTraining ==
    /\ phases = SubSeq(PhaseOrder, 1, Len(phases))
    /\ fit_started => Len(phases) >= 9
    /\ output_dir_created => Len(phases) >= 9
    /\ written # {} => fit_started
    /\ failed_at \in EagerPhases =>
           /\ pc = "error"
           /\ ~fit_started
           /\ ~output_dir_created
           /\ written = {}

C7_Witness ==
    /\ pc = "done"
    /\ fit_started
    /\ output_dir_created
    /\ written # {}

\* C8: once the config is validated and the defaults applied, no later step
\* changes a value the user supplied.
C8_ConfigImmutable ==
    Completed("defaults") =>
        \A k \in DOMAIN user_config : config[k] = user_config[k]

\* C10: for every (num_channels, channel_reduction) the validator accepts,
\* no bottleneck convolution (line 63) is requested with fewer than one
\* channel.
C10_BottleneckHasChannels ==
    /\ \A i \in DOMAIN model.nodes :
           model.nodes[i].line = 63 => model.nodes[i].filters >= 1
    /\ ~(model.err # "none" /\ model.err_line = 63)

====
